---- MODULE Spec2Model ----
(***************************************************************************)
(* Model of the bug detection engine: BugDetectionModel                    *)
(* (backend/ml_engine/model.py), detect_bugs (backend/ml_engine/detect.py) *)
(* and scan_project (scripts/scan_project.py).                             *)
(*                                                                         *)
(* Text is a sequence of one-character strings.  Floating point scores    *)
(* are kept in thousandths (0.95 is 950); see bug_probability for the one  *)
(* place where IEEE-754 rounding decides a comparison.  The mean score of  *)
(* a scan is kept as the exact quotient [num, den] of the sum of the       *)
(* per-file thousandths by the number of files.                            *)
(*                                                                         *)
(* Four specifications, one per entry point: Spec (one predict call on a   *)
(* text), SpecSeverity (_calculate_severity on a findings list),           *)
(* SpecScan (scan_project over a list of files) and SpecModel (one         *)
(* instance under predict / save_model / load_model, and detect_bugs).     *)
(***************************************************************************)
EXTENDS Integers, Sequences, FiniteSets, TLC

VARIABLES
    call,           \* the latest call: its name and, where it has one, its path
    code,           \* the text handed to the latest predict / detect_bugs call
    result,         \* what that call returned (NoResult before the call)
    model,          \* BugDetectionModel.model        (the placeholder classifier)
    vectorizer,     \* BugDetectionModel.vectorizer
    bug_patterns,   \* BugDetectionModel.bug_patterns (the rule table)
    disk,           \* model path -> pickled {model, vectorizer}, or NoFile
    seen,           \* text -> the set of Results predict has returned for it
    code_files,     \* scan_project: the files found, in iteration order
    idx,            \* scan_project: number of files the loop has handled
    all_results,    \* scan_project: the summary being built
    pc,             \* scan_project: "loop", "average", "done" or "crashed"
    bugs,           \* argument of a direct _calculate_severity call
    severity_count  \* its outcome (NoResult before the call)

vars == <<call, code, result, model, vectorizer, bug_patterns, disk, seen,
          code_files, idx, all_results, pc, bugs, severity_count>>

\* ------------------------------------------------------------------ bounds

\* Longest blob, in lines, that Blobs enumerates over the line corpus.
MaxLines == 2

\* Longest findings list handed to _calculate_severity directly.
MaxBugs == 3

\* Most files a scanned project tree holds.
MaxFiles == 3

\* ------------------------------------------------------------- characters

NL == "\n"

UpperSeq ==
    <<"A","B","C","D","E","F","G","H","I","J","K","L","M",
      "N","O","P","Q","R","S","T","U","V","W","X","Y","Z">>

LowerSeq ==
    <<"a","b","c","d","e","f","g","h","i","j","k","l","m",
      "n","o","p","q","r","s","t","u","v","w","x","y","z">>

Upper == {UpperSeq[i] : i \in 1..26}

Lower == {LowerSeq[i] : i \in 1..26}

Digit == {"0","1","2","3","4","5","6","7","8","9"}

\* \w of the re module (ASCII part): letters, digits, underscore.
WordChar == Upper \cup Lower \cup Digit \cup {"_"}

\* \s of the re module, and what str.strip() removes.
Space == {" ", "\t", "\n", "\r", "\f"}

LowerOf == [c \in Upper |-> LowerSeq[CHOOSE i \in 1..26 : UpperSeq[i] = c]]

\* Case folding of re.IGNORECASE.
ToLower(c) == IF c \in Upper THEN LowerOf[c] ELSE c

\* ------------------------------------------------------------ str methods

\* s[i : i+len(sub)] == sub
StartsAt(s, sub, i) ==
    /\ i + Len(sub) - 1 <= Len(s)
    /\ \A k \in 1..Len(sub) : s[i + k - 1] = sub[k]

\* Every position at which sub occurs in s.
Occurrences(s, sub) ==
    {i \in 1..(Len(s) - Len(sub) + 1) : StartsAt(s, sub, i)}

\* The left-to-right scan of str.count over the occurrences occ of a needle
\* of length m: take the leftmost, resume right after it.
RECURSIVE GreedyCount(_, _)
GreedyCount(occ, m) ==
    IF occ = {} THEN 0
    ELSE LET first == CHOOSE i \in occ : \A j \in occ : i <= j
         IN  1 + GreedyCount({j \in occ : j >= first + m}, m)

\* str.count(sub): non-overlapping occurrences, scanning left to right.
\* Occurrences of a one-character needle never overlap, so all are counted.
Count(s, sub) ==
    IF Len(sub) = 1 THEN Cardinality(Occurrences(s, sub))
    ELSE GreedyCount(Occurrences(s, sub), Len(sub))

\* str.split('\n'): the pieces between newlines; n newlines give n+1 pieces,
\* so the empty text gives the one piece ''.
\* SplitRange gives the pieces of s[lo..hi]; the pieces of two adjacent
\* ranges combine by gluing the last piece of the left to the first piece of
\* the right.
RECURSIVE SplitRange(_, _, _)
SplitRange(s, lo, hi) ==
    IF lo > hi THEN << <<>> >>
    ELSE IF lo = hi
         THEN (IF s[lo] = NL THEN << <<>>, <<>> >> ELSE << <<s[lo]>> >>)
    ELSE LET mid == (lo + hi) \div 2
             L == SplitRange(s, lo, mid)
             R == SplitRange(s, mid + 1, hi)
         IN  SubSeq(L, 1, Len(L) - 1) \o <<L[Len(L)] \o R[1]>> \o Tail(R)

Split(s) == SplitRange(s, 1, Len(s))

\* str.strip(): leading and trailing whitespace removed.
Strip(s) ==
    LET keep == {i \in 1..Len(s) : s[i] \notin Space}
    IN  IF keep = {} THEN <<>>
        ELSE LET a == CHOOSE i \in keep : \A j \in keep : i <= j
                 b == CHOOSE i \in keep : \A j \in keep : j <= i
             IN  SubSeq(s, a, b)

\* '\n'.join(lines)
RECURSIVE JoinFrom(_, _)
JoinFrom(lines, i) ==
    IF i > Len(lines) THEN <<>>
    ELSE IF i = Len(lines) THEN lines[i]
    ELSE lines[i] \o <<NL>> \o JoinFrom(lines, i + 1)

Join(lines) == JoinFrom(lines, 1)

\* ------------------------------------------------------------------ regex

\* A pattern is a sequence of alternatives (the branches of |); an alternative
\* is a sequence of elements [q, cs]: q is "one", "star" (*), "plus" (+) or
\* "opt" (?), cs the set of case-folded characters the element accepts.
Lit(s) == [i \in 1..Len(s) |-> [q |-> "one", cs |-> {ToLower(s[i])}]]

Star(cs) == <<[q |-> "star", cs |-> cs]>>

Plus(cs) == <<[q |-> "plus", cs |-> cs]>>

Opt(cs) == <<[q |-> "opt", cs |-> cs]>>

One(cs) == <<[q |-> "one", cs |-> cs]>>

\* \s and \w under IGNORECASE, over case-folded text.
ReSpace == Space

ReWord == Lower \cup Digit \cup {"_"}

\* Whether alternative alt, from element k on, matches line at position pos.
RECURSIVE MatchHere(_, _, _, _)
MatchHere(alt, k, line, pos) ==
    IF k > Len(alt) THEN TRUE
    ELSE LET e == alt[k]
             ok == pos <= Len(line) /\ ToLower(line[pos]) \in e.cs
         IN  CASE e.q = "one" ->
                    ok /\ MatchHere(alt, k + 1, line, pos + 1)
               [] e.q = "star" ->
                    \/ MatchHere(alt, k + 1, line, pos)
                    \/ ok /\ MatchHere(alt, k, line, pos + 1)
               [] e.q = "plus" ->
                    ok /\ (\/ MatchHere(alt, k, line, pos + 1)
                           \/ MatchHere(alt, k + 1, line, pos + 1))
               [] e.q = "opt" ->
                    \/ MatchHere(alt, k + 1, line, pos)
                    \/ ok /\ MatchHere(alt, k + 1, line, pos + 1)

\* re.search(pattern, line, re.IGNORECASE) is not None
re_search(pattern, line) ==
    \E a \in 1..Len(pattern) :
        \E start \in 1..(Len(line) + 1) : MatchHere(pattern[a], 1, line, start)

\* ------------------------------------------------------------- rule table

\* Mutant of PatNoneCompare: r'(==|is)\s*None', which takes the identity
\* test for the comparison.
PatNoneCompareOrIs ==
    << Lit(<<"=","=">>) \o Star(ReSpace) \o Lit(<<"N","o","n","e">>),
       Lit(<<"i","s">>) \o Star(ReSpace) \o Lit(<<"N","o","n","e">>) >>

\* r'==\s*None'
PatNoneCompare ==
    << Lit(<<"=","=">>) \o Star(ReSpace) \o Lit(<<"N","o","n","e">>) >>

\* r'except\s*:'
PatBareExcept ==
    << Lit(<<"e","x","c","e","p","t">>) \o Star(ReSpace) \o Lit(<<":">>) >>

\* r'eval\s*\('
PatEval ==
    << Lit(<<"e","v","a","l">>) \o Star(ReSpace) \o Lit(<<"(">>) >>

\* r'exec\s*\('
PatExec ==
    << Lit(<<"e","x","e","c">>) \o Star(ReSpace) \o Lit(<<"(">>) >>

\* r'var\s+\w+\s*='
PatVar ==
    << Lit(<<"v","a","r">>) \o Plus(ReSpace) \o Plus(ReWord)
       \o Star(ReSpace) \o Lit(<<"=">>) >>

\* r'console\.log\('
PatConsoleLog ==
    << Lit(<<"c","o","n","s","o","l","e",".","l","o","g","(">>) >>

\* r'TODO|FIXME|HACK'
PatTodo ==
    << Lit(<<"T","O","D","O">>), Lit(<<"F","I","X","M","E">>),
       Lit(<<"H","A","C","K">>) >>

\* r'password\s*=\s*["\']'
PatPassword ==
    << Lit(<<"p","a","s","s","w","o","r","d">>) \o Star(ReSpace)
       \o Lit(<<"=">>) \o Star(ReSpace) \o One({"\"", "'"}) >>

\* r'api[_-]?key\s*=\s*["\']'
PatApiKey ==
    << Lit(<<"a","p","i">>) \o Opt({"_", "-"}) \o Lit(<<"k","e","y">>)
       \o Star(ReSpace) \o Lit(<<"=">>) \o Star(ReSpace)
       \o One({"\"", "'"}) >>

\* r'\.innerHTML\s*='
PatInnerHtml ==
    << Lit(<<".","i","n","n","e","r","H","T","M","L">>) \o Star(ReSpace)
       \o Lit(<<"=">>) >>

Rule(p, s, m) == [pattern |-> p, severity |-> s, message |-> m]

\* BugDetectionModel._load_bug_patterns: the ten rules, in table order.
load_bug_patterns ==
    << Rule(PatNoneCompare, "medium", "Use \"is None\" instead of \"== None\""),
       Rule(PatBareExcept, "high", "Bare except clause - specify exception type"),
       Rule(PatEval, "critical", "Use of eval() is dangerous - security risk"),
       Rule(PatExec, "critical", "Use of exec() is dangerous - security risk"),
       Rule(PatVar, "low", "Use let or const instead of var in JavaScript"),
       Rule(PatConsoleLog, "low", "Remove console.log before production"),
       Rule(PatTodo, "medium", "Unresolved TODO/FIXME comment"),
       Rule(PatPassword, "critical", "Hardcoded password detected - security risk"),
       Rule(PatApiKey, "critical", "Hardcoded API key detected - security risk"),
       Rule(PatInnerHtml, "high", "Potential XSS vulnerability with innerHTML") >>

\* The fixed severity enum.
Severities == {"critical", "high", "medium", "low"}

\* ---------------------------------------------------------- Line Matcher

\* Mutant of Finding: every finding is given the severity 'medium', whatever
\* the rule that matched.
FindingFlatSeverity(i, rule, line) ==
    [line |-> i, severity |-> "medium", message |-> rule.message,
     code |-> Strip(line), type |-> "pattern"]

\* The dict appended at model.py:114-120.
Finding(i, rule, line) ==
    [line |-> i, severity |-> rule.severity, message |-> rule.message,
     code |-> Strip(line), type |-> "pattern"]

\* Mutant of RuleLoop: a break after the first append, so the first matching
\* rule consumes the line.
RECURSIVE RuleLoopBreak(_, _, _, _, _)
RuleLoopBreak(patterns, r, i, line, acc) ==
    IF r > Len(patterns) THEN acc
    ELSE IF re_search(patterns[r].pattern, line)
         THEN Append(acc, Finding(i, patterns[r], line))
         ELSE RuleLoopBreak(patterns, r + 1, i, line, acc)

\* The inner loop of detect_pattern_bugs: every rule, in table order, against
\* line number i; each rule that matches appends one finding.
RECURSIVE RuleLoop(_, _, _, _, _)
RuleLoop(patterns, r, i, line, acc) ==
    IF r > Len(patterns) THEN acc
    ELSE RuleLoop(patterns, r + 1, i, line,
                  IF re_search(patterns[r].pattern, line)
                  THEN Append(acc, Finding(i, patterns[r], line))
                  ELSE acc)

\* The outer loop, enumerate(lines, 1), over lines lo..hi: the findings of
\* line lo, then those of line lo+1, ... (the range is halved to keep the
\* evaluation shallow on long texts; the order is the loop's).
RECURSIVE LineLoop(_, _, _, _)
LineLoop(patterns, lines, lo, hi) ==
    IF lo > hi THEN <<>>
    ELSE IF lo = hi THEN RuleLoop(patterns, 1, lo, lines[lo], <<>>)
    ELSE LET mid == (lo + hi) \div 2
         IN  LineLoop(patterns, lines, lo, mid)
                 \o LineLoop(patterns, lines, mid + 1, hi)

detect_pattern_bugs(patterns, c) ==
    LET lines == Split(c) IN LineLoop(patterns, lines, 1, Len(lines))

\* ------------------------------------------------------ Feature Extractor

\* len(re.findall(r'\b[A-Z_]+\b', code)).  A match must start and end at a
\* word boundary and [A-Z_] are word characters, so the matches are exactly
\* the maximal runs of word characters made of capitals and underscores only.
RECURSIVE RunEnd(_, _)
RunEnd(s, i) ==
    IF i < Len(s) /\ s[i + 1] \in WordChar THEN RunEnd(s, i + 1) ELSE i

CountConstants(s) ==
    LET starts == {i \in 1..Len(s) :
                      /\ s[i] \in WordChar
                      /\ (i = 1 \/ s[i - 1] \notin WordChar)}
    IN  Cardinality({i \in starts :
                        \A k \in i..RunEnd(s, i) : s[k] \in Upper \cup {"_"}})

\* BugDetectionModel.extract_features: features[0][k-1] of the code is
\* element k here.
extract_features(c) ==
    << Len(Split(c)),
       Count(c, <<"i","f">>),
       Count(c, <<"f","o","r">>) + Count(c, <<"w","h","i","l","e">>),
       Count(c, <<"t","r","y">>),
       Count(c, <<"d","e","f">>) + Count(c, <<"f","u","n","c","t","i","o","n">>),
       CountConstants(c),
       Count(c, <<"i","m","p","o","r","t">>)
           + Count(c, <<"r","e","q","u","i","r","e">>),
       IF Len(c) > 1000 THEN 1 ELSE 0,
       IF Count(c, <<NL>>) > 300 THEN 1 ELSE 0,
       Count(c, <<"#"," ","T","O","D","O">>)
           + Count(c, <<"/","/"," ","T","O","D","O">>) >>

\* ------------------------------------------------------ Confidence Scorer

\* complexity_score * 0.1 + line_count * 0.001 is a double.  Its value in
\* thousandths is 100 * complexity_score + line_count; the double sum lies
\* strictly above the double 0.3 although the exact sum is 0.3 for
\* 1 * 0.1 + 200 * 0.001 and 2 * 0.1 + 100 * 0.001 (both 0.30000000000000004),
\* and equals 0.3 for 0 * 0.1 + 300 * 0.001.  excess records that.
RoundsAbove(complexity_score, line_count) ==
    <<complexity_score, line_count>> \in {<<1, 200>>, <<2, 100>>}

\* Mutant of bug_probability: the min(0.95, ...) cap left out.
bug_probability_uncapped(complexity_score, line_count) ==
    [milli |-> 100 * complexity_score + line_count,
     excess |-> IF RoundsAbove(complexity_score, line_count) THEN 1 ELSE 0]

\* min(0.95, complexity_score * 0.1 + line_count * 0.001), model.py:140.
bug_probability(complexity_score, line_count) ==
    LET raw == 100 * complexity_score + line_count
    IN  IF raw >= 950 THEN [milli |-> 950, excess |-> 0]
        ELSE [milli |-> raw,
              excess |-> IF RoundsAbove(complexity_score, line_count)
                         THEN 1 ELSE 0]

\* x > 0.3 on a score.
Above03(p) == p.milli > 300 \/ (p.milli = 300 /\ p.excess > 0)

\* Mutant of has_bugs_of: findings alone decide, the score is ignored.
has_bugs_findings_only(p, pattern_bugs) == Len(pattern_bugs) > 0

\* model.py:141
has_bugs_of(p, pattern_bugs) == Above03(p) \/ Len(pattern_bugs) > 0

\* ---------------------------------------------------- Severity Aggregator

KeyError == [error |-> "KeyError"]

IsError(v) == "error" \in DOMAIN v

\* Mutant of SeverityLoop: severity_count.get(severity, 0) + 1, which adds
\* a key for a severity the dict does not hold.
RECURSIVE SeverityLoopGet(_, _, _)
SeverityLoopGet(bs, i, count) ==
    IF i > Len(bs) THEN count
    ELSE SeverityLoopGet(bs, i + 1,
             [s \in DOMAIN count \cup {bs[i].severity} |->
                 (IF s \in DOMAIN count THEN count[s] ELSE 0)
                 + (IF s = bs[i].severity THEN 1 ELSE 0)])

\* The loop of _calculate_severity: severity_count[bug['severity']] += 1
\* raises KeyError on a key the dict does not hold.
RECURSIVE SeverityLoop(_, _, _)
SeverityLoop(bs, i, count) ==
    IF i > Len(bs) THEN count
    ELSE IF bs[i].severity \notin DOMAIN count THEN KeyError
    ELSE SeverityLoop(bs, i + 1,
                      [count EXCEPT ![bs[i].severity] = @ + 1])

\* Mutant of calculate_severity: the dict starts with the severities the
\* findings carry only, so a severity without a finding has no key.
calculate_severity_no_zero_fill(bs) ==
    SeverityLoop(bs, 1, [s \in {bs[i].severity : i \in 1..Len(bs)} |-> 0])

\* Mutant of calculate_severity: the loop starts at the second finding.
calculate_severity_from_second(bs) ==
    SeverityLoop(bs, 2, [s \in Severities |-> 0])

calculate_severity(bs) ==
    SeverityLoop(bs, 1, [s \in Severities |-> 0])

\* ---------------------------------------------------------------- predict

\* BugDetectionModel.predict on an instance whose rule table is patterns.
predict(patterns, c) ==
    LET pattern_bugs == detect_pattern_bugs(patterns, c)
        features == extract_features(c)
        complexity_score == features[2] + features[3]
        line_count == features[1]
        p == bug_probability(complexity_score, line_count)
        breakdown == calculate_severity(pattern_bugs)
    IN  IF IsError(breakdown) THEN breakdown
        ELSE [has_bugs |-> has_bugs_of(p, pattern_bugs),
              confidence |-> p,
              bugs_found |-> pattern_bugs,
              total_issues |-> Len(pattern_bugs),
              severity_breakdown |-> breakdown]

\* ----------------------------------------------------------------- inputs

\* 'if x == None: pass'
LineEqNone ==
    <<"i","f"," ","x"," ","=","="," ","N","o","n","e",":"," ","p","a","s",
      "s">>

\* 'if x is None: pass'
LineIsNone ==
    <<"i","f"," ","x"," ","i","s"," ","N","o","n","e",":"," ","p","a","s",
      "s">>

\* 'except:'
LineExcept ==
    <<"e","x","c","e","p","t",":">>

\* 'eval(user_input)'
LineEval ==
    <<"e","v","a","l","(","u","s","e","r","_","i","n","p","u","t",")">>

\* 'exec(malicious_code)'
LineExec ==
    <<"e","x","e","c","(","m","a","l","i","c","i","o","u","s","_","c","o",
      "d","e",")">>

\* 'password = "test123"; api_key = "sk-abc"'
LineSecrets ==
    <<"p","a","s","s","w","o","r","d"," ","="," ","\"","t","e","s","t","1",
      "2","3","\"",";"," ","a","p","i","_","k","e","y"," ","="," ","\"","s",
      "k","-","a","b","c","\"">>

\* "console.log('debug info')"
LineConsole ==
    <<"c","o","n","s","o","l","e",".","l","o","g","(","'","d","e","b","u",
      "g"," ","i","n","f","o","'",")">>

\* 'var x = 10; // TODO: fix this'
LineVarTodo ==
    <<"v","a","r"," ","x"," ","="," ","1","0",";"," ","/","/"," ","T","O",
      "D","O",":"," ","f","i","x"," ","t","h","i","s">>

\* '        for i in range(10):'
LineFor ==
    <<" "," "," "," "," "," "," "," ","f","o","r"," ","i"," ","i","n"," ",
      "r","a","n","g","e","(","1","0",")",":">>

\* 'element.innerHTML = user_data'
LineInnerHtml ==
    <<"e","l","e","m","e","n","t",".","i","n","n","e","r","H","T","M","L",
      " ","="," ","u","s","e","r","_","d","a","t","a">>

\* 'api_key = "sk-1234567890abcdef"'
LineApiKey ==
    <<"a","p","i","_","k","e","y"," ","="," ","\"","s","k","-","1","2","3",
      "4","5","6","7","8","9","0","a","b","c","d","e","f","\"">>

\* ''
LineEmpty == <<>>

Corpus ==
    {LineEqNone, LineIsNone, LineExcept, LineEval, LineExec, LineSecrets,
     LineConsole, LineVarTodo, LineFor, LineInnerHtml, LineApiKey, LineEmpty}

\* head followed by n newlines: a text of n more (empty) lines.
Padded(head, n) == head \o [i \in 1..n |-> NL]

\* n copies of line, one per line.
Repeat(line, n) == Join([i \in 1..n |-> line])

\* Texts at the edges of the scorer and of the feature flags: scores of
\* exactly 0.3 (300 lines; one 'if' and 200 lines; two and 100 lines), just
\* above it, at the 0.95 cap, and 300 / 301 / 302 lines.
EdgeBlobs ==
    {Padded(LineEmpty, 299), Padded(LineIsNone, 199),
     Padded(Repeat(LineIsNone, 2), 98), Padded(LineIsNone, 200),
     Repeat(LineIsNone, 3), Repeat(LineIsNone, 10),
     Padded(LineEmpty, 300), Padded(LineEmpty, 301)}

\* The texts the model is run on: every text of 1..MaxLines corpus lines
\* (the empty text is the one-line text of the empty line) and the edge texts.
Blobs ==
    {Join(ls) : ls \in UNION {[1..n -> Corpus] : n \in 1..MaxLines}}
        \cup EdgeBlobs

NoResult == [status |-> "none"]

Unused == "-"

\* -------------------------------------------- specification: one predict

\* BugDetectionModel.__init__: an unfitted classifier and vectorizer, and the
\* rule table.
NewInstance ==
    [model |-> "RandomForestClassifier()",
     vectorizer |-> "TfidfVectorizer()",
     bug_patterns |-> load_bug_patterns]

InitInstance ==
    /\ model = NewInstance.model
    /\ vectorizer = NewInstance.vectorizer
    /\ bug_patterns = NewInstance.bug_patterns

Init ==
    /\ InitInstance
    /\ code \in Blobs
    /\ result = NoResult
    /\ disk = Unused /\ seen = Unused
    /\ code_files = Unused /\ idx = Unused /\ all_results = Unused
    /\ pc = Unused /\ bugs = Unused /\ severity_count = Unused
    /\ call = Unused

\* model.predict(code)
Predict ==
    /\ result = NoResult
    /\ result' = predict(bug_patterns, code)
    /\ UNCHANGED <<call, code, model, vectorizer, bug_patterns, disk, seen,
                   code_files, idx, all_results, pc, bugs, severity_count>>

Next == Predict

Spec == Init /\ [][Next]_vars

\* ------------------------------------------------- properties of predict

Returned == result # NoResult

Min(a, b) == IF a <= b THEN a ELSE b

\* C1: the Result of predict has total_issues equal to the length of
\* bugs_found and to the sum of the four severity_breakdown counts.
Thm_C1_TotalIsLengthIsSeveritySum ==
    Returned =>
        /\ result.total_issues = Len(result.bugs_found)
        /\ DOMAIN result.severity_breakdown = Severities
        /\ result.total_issues =
               result.severity_breakdown["critical"]
               + result.severity_breakdown["high"]
               + result.severity_breakdown["medium"]
               + result.severity_breakdown["low"]

\* A Result with findings of at least two different severities.
Wit_C1_MixedSeverities ==
    /\ Returned
    /\ result.total_issues >= 2
    /\ \E s, t \in Severities :
           /\ s # t
           /\ result.severity_breakdown[s] > 0
           /\ result.severity_breakdown[t] > 0

\* C2: has_bugs is true exactly when confidence > 0.3 (strictly) or
\* total_issues > 0.
Thm_C2_HasBugsIffScoreOrFindings ==
    Returned =>
        (result.has_bugs <=>
            \/ result.confidence.milli > 300
            \/ (result.confidence.milli = 300 /\ result.confidence.excess > 0)
            \/ result.total_issues > 0)

\* A text with no finding that is flagged because its confidence exceeds 0.3.
Wit_C2_FlaggedWithoutFindings ==
    /\ Returned
    /\ result.total_issues = 0
    /\ result.confidence.milli > 300
    /\ result.has_bugs

\* The rule (its position in the table) a finding's message belongs to.
RuleOf(message) ==
    CHOOSE r \in 1..Len(load_bug_patterns) :
        load_bug_patterns[r].message = message

\* C3: detect_pattern_bugs emits exactly one finding for each (line, rule)
\* pair whose pattern matches the line and no others, ordered by ascending
\* 1-based line number and, within a line, by rule-table position; no rule
\* suppresses another on the same line.
Thm_C3_OneFindingPerLineRulePair ==
    Returned =>
        LET f == result.bugs_found
            lines == Split(code)
            rules == load_bug_patterns
        IN  /\ \A i \in 1..Len(lines) : \A r \in 1..Len(rules) :
                   Cardinality({k \in 1..Len(f) :
                       f[k].line = i /\ f[k].message = rules[r].message})
                   = IF re_search(rules[r].pattern, lines[i]) THEN 1 ELSE 0
            /\ \A k \in 1..Len(f) :
                   /\ f[k].line \in 1..Len(lines)
                   /\ \E r \in 1..Len(rules) :
                          f[k].message = rules[r].message
            /\ \A k \in 1..(Len(f) - 1) :
                   \/ f[k].line < f[k + 1].line
                   \/ /\ f[k].line = f[k + 1].line
                      /\ RuleOf(f[k].message) < RuleOf(f[k + 1].message)

\* A two-line text whose second line is matched by two rules and yields both
\* findings, after a finding on the first line.
Wit_C3_TwoRulesOnOneLine ==
    /\ Returned
    /\ Len(result.bugs_found) = 3
    /\ result.bugs_found[1].line = 1
    /\ result.bugs_found[2].line = 2
    /\ result.bugs_found[3].line = 2

\* C4: predict on the empty text returns total_issues == 0,
\* confidence == 0.0 and has_bugs == false.
CE_C4_EmptyBlobZeroConfidence ==
    (Returned /\ code = <<>>) =>
        /\ result.total_issues = 0
        /\ result.confidence.milli = 0
        /\ result.has_bugs = FALSE

\* C7: confidence is min(0.95, (conditional_count + loop_count) * 0.1 +
\* line_count * 0.001) of the feature vector (in thousandths
\* min(950, 100 * (conditional_count + loop_count) + line_count)), so it lies
\* in [0, 0.95] and is the same whatever findings the text produced.
Thm_C7_ConfidenceIsCappedFeatureScore ==
    Returned =>
        LET features == extract_features(code)
        IN  /\ result.confidence.milli =
                   Min(950, 100 * (features[2] + features[3]) + features[1])
            /\ result.confidence.milli \in 0..950

\* A text whose uncapped score (1.010) is above the cap.
Wit_C7_CapReached ==
    /\ Returned
    /\ result.confidence.milli = 950
    /\ LET features == extract_features(code)
       IN  100 * (features[2] + features[3]) + features[1] > 950

\* C13: every finding carries the severity and the message of a rule that
\* matches the line whose number it carries; a line matching the
\* hardcoded-password, the hardcoded-API-key or the eval rule yields a
\* critical finding, a line matching the bare-except rule a high one and a
\* line matching the console.log rule a low one.
Thm_C13_FindingCarriesRuleSeverity ==
    Returned =>
        LET f == result.bugs_found
            lines == Split(code)
            rules == load_bug_patterns
            Yields(i, severity) ==
                \E k \in 1..Len(f) :
                    f[k].line = i /\ f[k].severity = severity
        IN  /\ \A k \in 1..Len(f) :
                   /\ f[k].line \in 1..Len(lines)
                   /\ \E r \in 1..Len(rules) :
                          /\ re_search(rules[r].pattern, lines[f[k].line])
                          /\ f[k].severity = rules[r].severity
                          /\ f[k].message = rules[r].message
            /\ \A i \in 1..Len(lines) :
                   /\ re_search(PatPassword, lines[i]) => Yields(i, "critical")
                   /\ re_search(PatApiKey, lines[i]) => Yields(i, "critical")
                   /\ re_search(PatEval, lines[i]) => Yields(i, "critical")
                   /\ re_search(PatBareExcept, lines[i]) => Yields(i, "high")
                   /\ re_search(PatConsoleLog, lines[i]) => Yields(i, "low")

\* The Result for a bare except on line 1 and a hardcoded API key on line 2
\* (a line the password rule does not match): a high finding for line 1, a
\* critical one for line 2.
Wit_C13_HighThenCriticalApiKey ==
    /\ Returned
    /\ code = Join(<<LineExcept, LineApiKey>>)
    /\ ~re_search(PatPassword, LineApiKey)
    /\ Len(result.bugs_found) = 2
    /\ result.bugs_found[1].line = 1
    /\ result.bugs_found[1].severity = "high"
    /\ result.bugs_found[2].line = 2
    /\ result.bugs_found[2].severity = "critical"
    /\ result.bugs_found[2].message
           = "Hardcoded API key detected - security risk"

\* The message of the null-comparison rule, the first of the table.
NoneCompareMessage == "Use \"is None\" instead of \"== None\""

\* C14: predict on the one-line text 'if x == None: pass' returns exactly one
\* finding, of severity medium, from the null-comparison rule; predict on
\* 'if x is None: pass' returns no finding from that rule.
Thm_C14_EqNoneFlaggedIsNoneNot ==
    /\ (Returned /\ code = LineEqNone) =>
           /\ Len(result.bugs_found) = 1
           /\ result.total_issues = 1
           /\ result.bugs_found[1].line = 1
           /\ result.bugs_found[1].severity = "medium"
           /\ result.bugs_found[1].message = NoneCompareMessage
           /\ result.bugs_found[1].message = load_bug_patterns[1].message
    /\ (Returned /\ code = LineIsNone) =>
           \A k \in 1..Len(result.bugs_found) :
               result.bugs_found[k].message # NoneCompareMessage

\* predict has returned for 'if x == None: pass', with a medium finding.
Wit_C14_EqNonePredicted ==
    /\ Returned
    /\ code = LineEqNone
    /\ result.severity_breakdown["medium"] = 1
    /\ result.has_bugs

\* C15: extract_features sets the too-many-lines flag (features[0][8]) to 1
\* exactly when the line count the same vector reports as its first feature
\* is over 300: set for a text of 301 lines, not set for one of 300.
CE_C15_FlagIffLineCountOver300 ==
    Returned =>
        LET features == extract_features(code)
        IN  (features[9] = 1) <=> (features[1] > 300)

\* ------------------------- specification: _calculate_severity called directly

\* Severities a caller may put in a finding: the four of the enum, and two
\* outside it (an unknown class, and a known one in the wrong case).
InputSeverities == Severities \cup {"info", "CRITICAL"}

\* Findings as test_severity_calculation builds them.
InputFindings == {[severity |-> s] : s \in InputSeverities}

InitSeverity ==
    /\ InitInstance
    /\ bugs \in UNION {[1..n -> InputFindings] : n \in 0..MaxBugs}
    /\ severity_count = NoResult
    /\ code = Unused /\ result = Unused /\ call = Unused
    /\ disk = Unused /\ seen = Unused
    /\ code_files = Unused /\ idx = Unused /\ all_results = Unused
    /\ pc = Unused

\* model._calculate_severity(bugs)
CalculateSeverity ==
    /\ severity_count = NoResult
    /\ severity_count' = calculate_severity(bugs)
    /\ UNCHANGED <<call, code, result, model, vectorizer, bug_patterns, disk,
                   seen, code_files, idx, all_results, pc, bugs>>

NextSeverity == CalculateSeverity

SpecSeverity == InitSeverity /\ [][NextSeverity]_vars

\* C8: _calculate_severity fails with an error and returns no mapping
\* whenever a finding of its input carries a severity outside critical, high,
\* medium, low: the severity is not dropped, coerced or added as a fifth key.
Thm_C8_UnknownSeverityRaises ==
    (/\ severity_count # NoResult
     /\ \E i \in 1..Len(bugs) : bugs[i].severity \notin Severities)
        => severity_count = KeyError

\* The call failed on an unknown severity that came after a known one.
Wit_C8_RaisedAfterKnownFinding ==
    /\ severity_count = KeyError
    /\ Len(bugs) >= 2
    /\ bugs[1].severity \in Severities
    /\ bugs[2].severity \notin Severities

\* The rearrangements of a sequence of length n.
Rearrangements(n) ==
    {p \in [1..n -> 1..n] : \A i, j \in 1..n : i # j => p[i] # p[j]}

\* C12: for findings whose severities are all among critical, high, medium
\* and low, _calculate_severity returns a mapping with exactly those four
\* keys, each holding the number of findings of that severity (0 when there
\* is none), and returns the same mapping for the findings in any other order.
Thm_C12_FourKeysCountPerSeverity ==
    (/\ severity_count # NoResult
     /\ \A i \in 1..Len(bugs) : bugs[i].severity \in Severities)
        => /\ DOMAIN severity_count = Severities
           /\ \A s \in Severities :
                  severity_count[s]
                      = Cardinality({i \in 1..Len(bugs) : bugs[i].severity = s})
           /\ \A p \in Rearrangements(Len(bugs)) :
                  calculate_severity([i \in 1..Len(bugs) |-> bugs[p[i]]])
                      = severity_count

\* The mapping returned for three findings, two of one severity around one of
\* another: a bucket of 2, a bucket of 1 and two buckets of 0.
Wit_C12_RepeatedSeverityAndEmptyBuckets ==
    /\ severity_count # NoResult
    /\ Len(bugs) = 3
    /\ \A i \in 1..3 : bugs[i].severity \in Severities
    /\ bugs[1].severity = bugs[3].severity
    /\ bugs[1].severity # bugs[2].severity
    /\ severity_count[bugs[1].severity] = 2
    /\ Cardinality({s \in Severities : severity_count[s] = 0}) = 2

\* ------------------------------------------- specification: scan_project

\* A file of the tree: its path, the text reading it gives, and the exception
\* open() / f.read() raise instead when it cannot be read ("" when it can).
File(path, content, raises) ==
    [path |-> path, content |-> content, raises |-> raises]

\* The files a project tree may hold.
FilePool ==
    { File("app/secrets.py", LineSecrets, ""),
      File("web/debug.js",
           Join(<<LineVarTodo, LineConsole, LineInnerHtml>>), ""),
      File("lib/branches.py", Repeat(LineIsNone, 4), ""),
      File("lib/clean.py", LineIsNone, ""),
      File("bin/blob.py", <<>>, "UnicodeDecodeError"),
      File("zz/locked.ts", <<>>, "PermissionError") }

Readable(file) == file.raises = ""

\* The lists rglob may yield: distinct files, in any order.
FileLists ==
    {fs \in UNION {[1..n -> FilePool] : n \in 0..MaxFiles} :
        \A i, j \in 1..Len(fs) : i # j => fs[i] # fs[j]}

\* 0.0, and a quotient of a sum of scores (in thousandths) by a count.
Zero == [num |-> 0, den |-> 1]

\* all_results as built at scan_project.py:21-33.
InitialResults ==
    [total_files |-> 0,
     files_with_bugs |-> 0,
     total_issues |-> 0,
     severity_breakdown |-> [s \in Severities |-> 0],
     files |-> <<>>,
     confidence |-> Zero]

\* Mutant of fold_result: files_with_bugs counts the files with findings,
\* not the files whose has_bugs is true.
fold_result_counts_findings(ar, file_path, results) ==
    [total_files |-> ar.total_files + 1,
     files_with_bugs |->
         ar.files_with_bugs + (IF results.total_issues > 0 THEN 1 ELSE 0),
     total_issues |-> ar.total_issues + results.total_issues,
     severity_breakdown |->
         [s \in DOMAIN ar.severity_breakdown |->
             ar.severity_breakdown[s] + results.severity_breakdown[s]],
     files |-> Append(ar.files,
                      [path |-> file_path,
                       has_bugs |-> results.has_bugs,
                       total_issues |-> results.total_issues,
                       confidence |-> results.confidence]),
     confidence |-> ar.confidence]

\* Mutant of fold_result: the per-file entry is appended under the
\* if results['has_bugs'], so a clean file is counted but not listed.
fold_result_lists_flagged_only(ar, file_path, results) ==
    [total_files |-> ar.total_files + 1,
     files_with_bugs |->
         ar.files_with_bugs + (IF results.has_bugs THEN 1 ELSE 0),
     total_issues |-> ar.total_issues + results.total_issues,
     severity_breakdown |->
         [s \in DOMAIN ar.severity_breakdown |->
             ar.severity_breakdown[s] + results.severity_breakdown[s]],
     files |-> IF results.has_bugs
               THEN Append(ar.files,
                           [path |-> file_path,
                            has_bugs |-> results.has_bugs,
                            total_issues |-> results.total_issues,
                            confidence |-> results.confidence])
               ELSE ar.files,
     confidence |-> ar.confidence]

\* Mutant of fold_result: the per-file entry is put at the head of the list
\* (files.insert(0, ...)), so the list comes out in reverse.
fold_result_prepends(ar, file_path, results) ==
    [total_files |-> ar.total_files + 1,
     files_with_bugs |->
         ar.files_with_bugs + (IF results.has_bugs THEN 1 ELSE 0),
     total_issues |-> ar.total_issues + results.total_issues,
     severity_breakdown |->
         [s \in DOMAIN ar.severity_breakdown |->
             ar.severity_breakdown[s] + results.severity_breakdown[s]],
     files |-> <<[path |-> file_path,
                  has_bugs |-> results.has_bugs,
                  total_issues |-> results.total_issues,
                  confidence |-> results.confidence]>> \o ar.files,
     confidence |-> ar.confidence]

\* scan_project.py:58-73: one file's Result folded into the summary.
fold_result(ar, file_path, results) ==
    [total_files |-> ar.total_files + 1,
     files_with_bugs |->
         ar.files_with_bugs + (IF results.has_bugs THEN 1 ELSE 0),
     total_issues |-> ar.total_issues + results.total_issues,
     severity_breakdown |->
         [s \in DOMAIN ar.severity_breakdown |->
             ar.severity_breakdown[s]
             + (IF s \in DOMAIN results.severity_breakdown
                THEN results.severity_breakdown[s] ELSE 0)],
     files |-> Append(ar.files,
                      [path |-> file_path,
                       has_bugs |-> results.has_bugs,
                       total_issues |-> results.total_issues,
                       confidence |-> results.confidence]),
     confidence |-> ar.confidence]

\* Mutant of scan_file: total_files is incremented before the file is
\* opened, so a file that cannot be read is counted.
scan_file_counts_first(ar, patterns, file) ==
    IF file.raises # "" THEN [ar EXCEPT !.total_files = @ + 1]
    ELSE fold_result(ar, file.path, predict(patterns, file.content))

\* scan_project.py:52-76, the body of the loop: an exception raised by the
\* read or by predict leaves the summary as it was (the handler only prints).
scan_file(ar, patterns, file) ==
    IF file.raises # "" THEN ar
    ELSE LET results == predict(patterns, file.content)
         IN  IF IsError(results) THEN ar
             ELSE fold_result(ar, file.path, results)

\* sum(f['confidence'] for f in all_results['files']), in thousandths.
RECURSIVE SumConfidence(_, _)
SumConfidence(files, i) ==
    IF i > Len(files) THEN 0
    ELSE files[i].confidence.milli + SumConfidence(files, i + 1)

ZeroDivisionError == [error |-> "ZeroDivisionError"]

\* Mutant of calculate_average: the total_files > 0 guard left out.
calculate_average_unguarded(ar) ==
    IF ar.total_files = 0 THEN ZeroDivisionError
    ELSE [ar EXCEPT !.confidence =
              [num |-> SumConfidence(ar.files, 1), den |-> ar.total_files]]

\* scan_project.py:79-82
calculate_average(ar) ==
    IF ar.total_files > 0
    THEN [ar EXCEPT !.confidence =
              [num |-> SumConfidence(ar.files, 1), den |-> ar.total_files]]
    ELSE ar

InitScan ==
    /\ InitInstance
    /\ all_results = InitialResults
    /\ code_files \in FileLists
    /\ idx = 0
    /\ pc = "loop"
    /\ code = Unused /\ result = Unused /\ call = Unused
    /\ disk = Unused /\ seen = Unused
    /\ bugs = Unused /\ severity_count = Unused

\* One iteration of the loop on a file that is read.
ScanFileRead ==
    /\ pc = "loop"
    /\ idx < Len(code_files)
    /\ Readable(code_files[idx + 1])
    /\ all_results' = scan_file(all_results, bug_patterns, code_files[idx + 1])
    /\ idx' = idx + 1
    /\ UNCHANGED <<call, code, result, model, vectorizer, bug_patterns, disk,
                   seen, code_files, pc, bugs, severity_count>>

\* One iteration of the loop on a file whose read raises.
ScanFileError ==
    /\ pc = "loop"
    /\ idx < Len(code_files)
    /\ ~Readable(code_files[idx + 1])
    /\ all_results' = scan_file(all_results, bug_patterns, code_files[idx + 1])
    /\ idx' = idx + 1
    /\ UNCHANGED <<call, code, result, model, vectorizer, bug_patterns, disk,
                   seen, code_files, pc, bugs, severity_count>>

\* The loop is over: the average is computed and the summary returned (the
\* JSON dump and the HTML report in between only read it).  An exception
\* here is not caught.
Finish ==
    /\ pc = "loop"
    /\ idx = Len(code_files)
    /\ LET averaged == calculate_average(all_results)
       IN  IF IsError(averaged)
           THEN pc' = "crashed" /\ UNCHANGED all_results
           ELSE pc' = "done" /\ all_results' = averaged
    /\ UNCHANGED <<call, code, result, model, vectorizer, bug_patterns, disk,
                   seen, code_files, idx, bugs, severity_count>>

NextScan == ScanFileRead \/ ScanFileError \/ Finish

SpecScan == InitScan /\ [][NextScan]_vars

\* The files of the list that are read, in order, and their Results.
ReadFiles == SelectSeq(code_files, Readable)

ResultOf(file) == predict(load_bug_patterns, file.content)

\* The sum of a sequence of numbers, from element i on.
RECURSIVE SumFrom(_, _)
SumFrom(xs, i) == IF i > Len(xs) THEN 0 ELSE xs[i] + SumFrom(xs, i + 1)

Sum(xs) == SumFrom(xs, 1)

\* C5: after the fold of N successfully read files the summary's
\* total_issues is the sum of the per-file total_issues, each severity bucket
\* the sum of that bucket over the per-file Results, files_with_bugs the
\* number of files whose has_bugs is true, and confidence the mean of the
\* per-file confidences (their sum divided by N).
Thm_C5_SummaryIsSumOfFiles ==
    pc = "done" =>
        LET r == [i \in 1..Len(ReadFiles) |-> ResultOf(ReadFiles[i])]
            N == Len(r)
        IN  /\ all_results.total_issues
                   = Sum([i \in 1..N |-> r[i].total_issues])
            /\ \A s \in Severities :
                   all_results.severity_breakdown[s]
                       = Sum([i \in 1..N |-> r[i].severity_breakdown[s]])
            /\ all_results.files_with_bugs
                   = Cardinality({i \in 1..N : r[i].has_bugs})
            /\ N > 0 =>
                   /\ all_results.confidence.num
                          = Sum([i \in 1..N |-> r[i].confidence.milli])
                   /\ all_results.confidence.den = N

\* A finished scan of three read files, one of them flagged without a
\* finding, with issues in several buckets.
Wit_C5_ThreeFilesFolded ==
    /\ pc = "done"
    /\ all_results.total_files = 3
    /\ all_results.files_with_bugs = 3
    /\ \E k \in 1..3 :
           /\ all_results.files[k].has_bugs
           /\ all_results.files[k].total_issues = 0
    /\ all_results.severity_breakdown["critical"] > 0
    /\ all_results.severity_breakdown["low"] > 0
    /\ all_results.confidence.den = 3
    /\ all_results.confidence.num > 0

\* The summary scan_project returns for a list of files.
RECURSIVE FoldAll(_, _, _)
FoldAll(ar, fs, i) ==
    IF i > Len(fs) THEN ar
    ELSE FoldAll(scan_file(ar, load_bug_patterns, fs[i]), fs, i + 1)

SummaryOf(fs) == calculate_average(FoldAll(InitialResults, fs, 1))

\* C6: a file that cannot be read does not abort the scan: the loop goes on
\* to the remaining files, the failed file adds nothing to total_files,
\* files_with_bugs, total_issues, the buckets or the per-file list, and what
\* the other files contribute is what they contribute without it.
Thm_C6_FailedFileIsSkipped ==
    /\ pc # "crashed"
    /\ pc = "loop" =>
           all_results
               = FoldAll(InitialResults,
                         SelectSeq(SubSeq(code_files, 1, idx), Readable), 1)
    /\ pc = "done" =>
           /\ idx = Len(code_files)
           /\ all_results.total_files = Len(ReadFiles)
           /\ \A k \in 1..Len(all_results.files) :
                  \E i \in 1..Len(code_files) :
                      /\ Readable(code_files[i])
                      /\ code_files[i].path = all_results.files[k].path
           /\ all_results = SummaryOf(ReadFiles)

\* A finished scan whose second file failed, between two files that were read.
Wit_C6_FailureBetweenReadFiles ==
    /\ pc = "done"
    /\ Len(code_files) = 3
    /\ Readable(code_files[1])
    /\ ~Readable(code_files[2])
    /\ Readable(code_files[3])
    /\ Len(all_results.files) = 2

\* C9: a scan over zero files (none found, or every file skipped) returns a
\* summary with total_files == 0 and confidence == 0.0, without a division
\* by zero.
Thm_C9_NoFilesNoDivision ==
    (/\ pc \in {"done", "crashed"}
     /\ \A i \in 1..Len(code_files) : ~Readable(code_files[i]))
        => /\ pc = "done"
           /\ all_results.total_files = 0
           /\ all_results.confidence = Zero

\* A finished scan in which every file found was skipped.
Wit_C9_EveryFileSkipped ==
    /\ pc = "done"
    /\ Len(code_files) = 2
    /\ \A i \in 1..Len(code_files) : ~Readable(code_files[i])

\* Where in the list of files found the file of a path stands.
PositionOf(path) ==
    CHOOSE i \in 1..Len(code_files) : code_files[i].path = path

\* C11: the per-file list holds the files read so far in the order in which
\* the loop was handed them (of two files read, the one handed earlier stands
\* earlier), and no later step sorts or reorders it: a step only appends.
Thm_C11_PerFileInSuppliedOrder ==
    /\ [](pc \in {"loop", "done"} =>
            LET f == all_results.files
            IN  /\ \A k \in 1..Len(f) :
                       \E i \in 1..idx :
                           /\ Readable(code_files[i])
                           /\ code_files[i].path = f[k].path
                /\ \A i \in 1..idx :
                       Readable(code_files[i]) =>
                           \E k \in 1..Len(f) : f[k].path = code_files[i].path
                /\ \A k, l \in 1..Len(f) :
                       k < l => PositionOf(f[k].path) < PositionOf(f[l].path))
    /\ [][/\ Len(all_results'.files) >= Len(all_results.files)
          /\ \A k \in 1..Len(all_results.files) :
                 all_results'.files[k] = all_results.files[k]]_vars

\* A finished scan that read web/debug.js before app/secrets.py, with a file
\* that failed between them: the list holds the two in that order, which is
\* not the order of their paths.
Wit_C11_ReadOrderNotPathOrder ==
    /\ pc = "done"
    /\ Len(code_files) = 3
    /\ code_files[1].path = "web/debug.js"
    /\ ~Readable(code_files[2])
    /\ code_files[3].path = "app/secrets.py"
    /\ Len(all_results.files) = 2
    /\ all_results.files[1].path = "web/debug.js"
    /\ all_results.files[2].path = "app/secrets.py"

\* C16: at every point of the loop of scan_project (after each file read or
\* skipped) and at its end, total_files is the length of the per-file list,
\* files_with_bugs is at most total_files and total_issues is the sum of the
\* four severity buckets; so the mean divides the sum of the listed
\* confidences by their number.
Thm_C16_CountersAgreeWithPerFileList ==
    pc \in {"loop", "done"} =>
        /\ all_results.total_files = Len(all_results.files)
        /\ all_results.files_with_bugs <= all_results.total_files
        /\ all_results.files_with_bugs
               = Cardinality({k \in 1..Len(all_results.files) :
                                 all_results.files[k].has_bugs})
        /\ DOMAIN all_results.severity_breakdown = Severities
        /\ all_results.total_issues
               = all_results.severity_breakdown["critical"]
                 + all_results.severity_breakdown["high"]
                 + all_results.severity_breakdown["medium"]
                 + all_results.severity_breakdown["low"]
        /\ (pc = "done" /\ all_results.total_files > 0) =>
               /\ all_results.confidence.den = Len(all_results.files)
               /\ all_results.confidence.num
                      = SumConfidence(all_results.files, 1)

\* In the middle of the loop, after a file that was skipped, a clean file and
\* a file with findings: two files counted and listed, one of them flagged.
Wit_C16_MidLoopSkippedCleanFlagged ==
    /\ pc = "loop"
    /\ idx = 3
    /\ \E i \in 1..3 : ~Readable(code_files[i])
    /\ all_results.total_files = 2
    /\ Len(all_results.files) = 2
    /\ all_results.files_with_bugs = 1
    /\ all_results.total_issues > 0

\* ------------------- specification: one instance, persistence, detect_bugs

\* A model path: the one train.py writes, and another.
Paths == {"backend/ml_engine/trained_model.pkl", "model.pkl"}

\* model_path=None
NoPath == "None"

NoFile == [exists |-> FALSE]

\* pickle.dump({'model': ..., 'vectorizer': ...}, f)
Pickle(m, v) == [exists |-> TRUE, model |-> m, vectorizer |-> v]

\* A pickle written by an earlier training run.
FittedPickle ==
    Pickle("RandomForestClassifier(fitted)", "TfidfVectorizer(fitted)")

FileNotFoundError == [error |-> "FileNotFoundError"]

\* What save_model and load_model return.
ReturnedNone == [status |-> "None"]

\* The instance the variables hold.
Self == [model |-> model, vectorizer |-> vectorizer,
         bug_patterns |-> bug_patterns]

\* BugDetectionModel.save_model: the file system after the call.
save_model(self, dsk, filepath) ==
    [dsk EXCEPT ![filepath] = Pickle(self.model, self.vectorizer)]

\* Mutant of load_model: the rule table is restored from the pickle too,
\* which holds none.
load_model_restores_patterns(self, dsk, filepath) ==
    IF ~dsk[filepath].exists THEN FileNotFoundError
    ELSE [model |-> dsk[filepath].model,
          vectorizer |-> dsk[filepath].vectorizer,
          bug_patterns |-> <<>>]

\* BugDetectionModel.load_model: the instance after the call, or the
\* exception open() raises.
load_model(self, dsk, filepath) ==
    IF ~dsk[filepath].exists THEN FileNotFoundError
    ELSE [self EXCEPT !.model = dsk[filepath].model,
                      !.vectorizer = dsk[filepath].vectorizer]

\* detect_bugs(code, model_path), on the file system dsk.
detect_bugs(c, model_path, dsk) ==
    LET fresh == NewInstance
        loaded == IF model_path = NoPath THEN fresh
                  ELSE load_model(fresh, dsk, model_path)
        m == IF loaded = FileNotFoundError THEN fresh ELSE loaded
    IN  IF IsError(m) THEN m ELSE predict(m.bug_patterns, c)

\* The texts the calls are made on.
ProbeBlobs == {LineEmpty, LineSecrets, Join(<<LineEqNone, LineVarTodo>>)}

Call(op, path) == [op |-> op, path |-> path]

InitModel ==
    /\ InitInstance
    /\ disk \in [Paths -> {NoFile, FittedPickle}]
    /\ seen = [b \in ProbeBlobs |-> {}]
    /\ call = Call("__init__", NoPath)
    /\ code = <<>>
    /\ result = NoResult
    /\ code_files = Unused /\ idx = Unused /\ all_results = Unused
    /\ pc = Unused /\ bugs = Unused /\ severity_count = Unused

\* model.predict(b)
CallPredict(b) ==
    /\ call' = Call("predict", NoPath)
    /\ code' = b
    /\ result' = predict(bug_patterns, b)
    /\ seen' = [seen EXCEPT ![b] = @ \cup {result'}]
    /\ UNCHANGED <<model, vectorizer, bug_patterns, disk, code_files, idx,
                   all_results, pc, bugs, severity_count>>

\* model.save_model(p)
SaveModel(p) ==
    /\ call' = Call("save_model", p)
    /\ disk' = save_model(Self, disk, p)
    /\ result' = ReturnedNone
    /\ UNCHANGED <<code, model, vectorizer, bug_patterns, seen, code_files,
                   idx, all_results, pc, bugs, severity_count>>

\* model.load_model(p) on a file that exists
LoadModel(p) ==
    /\ disk[p].exists
    /\ call' = Call("load_model", p)
    /\ LET loaded == load_model(Self, disk, p)
       IN  /\ model' = loaded.model
           /\ vectorizer' = loaded.vectorizer
           /\ bug_patterns' = loaded.bug_patterns
    /\ result' = ReturnedNone
    /\ UNCHANGED <<code, disk, seen, code_files, idx, all_results, pc, bugs,
                   severity_count>>

\* model.load_model(p) on a file that does not exist: open() raises, the
\* instance is as it was.
LoadModelMissing(p) ==
    /\ ~disk[p].exists
    /\ call' = Call("load_model", p)
    /\ result' = load_model(Self, disk, p)
    /\ UNCHANGED <<code, model, vectorizer, bug_patterns, disk, seen,
                   code_files, idx, all_results, pc, bugs, severity_count>>

\* detect_bugs(b, p), which works on an instance of its own
DetectBugs(b, p) ==
    /\ call' = Call("detect_bugs", p)
    /\ code' = b
    /\ result' = detect_bugs(b, p, disk)
    /\ seen' = [seen EXCEPT ![b] = @ \cup {result'}]
    /\ UNCHANGED <<model, vectorizer, bug_patterns, disk, code_files, idx,
                   all_results, pc, bugs, severity_count>>

NextModel ==
    \/ \E b \in ProbeBlobs : CallPredict(b)
    \/ \E p \in Paths : SaveModel(p)
    \/ \E p \in Paths : LoadModel(p)
    \/ \E p \in Paths : LoadModelMissing(p)
    \/ \E b \in ProbeBlobs : \E p \in Paths \cup {NoPath} : DetectBugs(b, p)

SpecModel == InitModel /\ [][NextModel]_vars

\* C10: the Result for a text depends only on the text and the static rule
\* table: every predict on the same text returns the same Result whatever
\* predict, save_model and load_model calls came before, none of them changes
\* the rule table, and detect_bugs with a path whose file is missing returns
\* what detect_bugs without a path returns.
Thm_C10_ResultDependsOnTextOnly ==
    /\ bug_patterns = load_bug_patterns
    /\ \A b \in ProbeBlobs :
           /\ Cardinality(seen[b]) <= 1
           /\ \A r \in seen[b] :
                  /\ ~IsError(r)
                  /\ r = detect_bugs(b, NoPath, disk)

\* detect_bugs has just been given a path whose file is missing, for a text
\* with findings, on which the instance, which has loaded a pickle, was
\* asked too.
Wit_C10_MissingPathAfterLoad ==
    /\ call.op = "detect_bugs"
    /\ call.path \in Paths
    /\ ~disk[call.path].exists
    /\ model = FittedPickle.model
    /\ seen[code] = {result}
    /\ result.total_issues > 0

====
